---- MODULE Spec2Model ----
(***************************************************************************)
(* The room coordinator of carcassonne-server (src/src/server_actor.rs):   *)
(* the ServerActor owns the player registry, the room registry and the     *)
(* matchmaking pool and handles one message to completion at a time.       *)
(*                                                                         *)
(* Every handler is an operator from a world (the actor's fields plus the  *)
(* events sent, the panic raised and the value returned so far) to the SET *)
(* of worlds it can end in: HashSet iteration order and the random id      *)
(* generator are the only sources of nondeterminism inside a handler.      *)
(* A panic (unwrap / expect on None, a checked arithmetic overflow, a      *)
(* string slice off a char boundary) ends the handler where it is raised   *)
(* and stops the actor.                                                    *)
(***************************************************************************)
EXTENDS Integers, FiniteSets, Sequences, Bags, TLC

VARIABLES players, rooms, available_rooms, overflow_checks, fault, sent, last_msg, ret,
          handled

vars == <<players, rooms, available_rooms, overflow_checks, fault, sent, last_msg, ret,
          handled>>

(* ------------------------------ bounds -------------------------------- *)

MaxPlayers == 3

MaxRooms == 2

\* the number of messages the actor is followed through
MaxMessages == 7

(* ----------------------------- value sets ----------------------------- *)

\* Option::None of an Option<IdType>; ids are drawn from 1..
None == 0

\* RoomData::in_game_count is a u32.  A u32 is held here as the 32-bit
\* two's-complement integer with the same bit pattern, so that 2^32 - 1,
\* the value 0 wraps to, is -1, and 2^31 is -I32Max - 1.
I32Max == 2147483647

PlayerIds == 1..MaxPlayers

RoomIds == 1..MaxRooms

Usernames == {"anna"}

CosmeticsValues == {"red", "blue"}

\* the cosmetics a LoginData carries
LoginCosmetics == {"red"}

ConnTypes == {"p2p"}

\* A String is a sequence of chars; "U+00E9" is a char whose UTF-8 encoding
\* is two bytes long, every other char used here is one byte long.
Utf8Len(c) == IF c = "U+00E9" THEN 2 ELSE 1

Payloads == { <<>>, <<"{">>, <<"{", "x">>, <<"U+00E9", "x">> }

Matchmaking == "Matchmaking"

Playing == "Playing"

(* ------------------------------ records ------------------------------- *)

PlayerObject(id, username, cosmetics, is_host) ==
    [id |-> id, username |-> username, cosmetics |-> cosmetics, is_host |-> is_host]

\* addr is an opaque handle; a delivery to it is recorded in `sent` under
\* the player's id.
UserData(obj, room, in_game) == [obj |-> obj, room |-> room, in_game |-> in_game]

RoomData(state, members, in_game_count) ==
    [state |-> state, players |-> members, in_game_count |-> in_game_count]

\* One outbound delivery: Event(OutEvent), GameEvent(OutGameEvent) or
\* SendRelayMexRaw, with the handle it is sent to.  Fields a kind does not
\* carry keep their default.
NoEvent ==
    [to |-> None, kind |-> "", player |-> None, username |-> "", cosmetics |-> "",
     is_host |-> FALSE, new_host |-> None, connection_type |-> "",
     broadcast_id |-> "", data |-> <<>>]

\* The value a handler returns to its caller.
NoRet == [tag |-> "Unit", id |-> None, room_id |-> None, players |-> {}, just_created |-> FALSE]

\* The message a handler was called with.
Msg(op, id, room_id, username, cosmetics, conn_type, data) ==
    [op |-> op, id |-> id, room_id |-> room_id, username |-> username,
     cosmetics |-> cosmetics, conn_type |-> conn_type, data |-> data]

NoMsg == Msg("", None, None, "", "", "", <<>>)

(* ------------------------------- worlds ------------------------------- *)

World ==
    [players |-> players, rooms |-> rooms, available_rooms |-> available_rooms,
     overflow_checks |-> overflow_checks,
     sent |-> EmptyBag, fault |-> "none", ret |-> NoRet]

Panic(w, why) == [w EXCEPT !.fault = why]

Return(w, r) == [w EXCEPT !.ret = r]

\* addr.do_send of each event of evs (all to different handles)
DoSend(w, evs) == [w EXCEPT !.sent = @ (+) SetToBag(evs)]

\* of the worlds W a call can end in: those where it returned, on which the
\* caller goes on, and those where it panicked, which the caller ends in too
Ok(W) == { w \in W : w.fault = "none" }

Failed(W) == { w \in W : w.fault # "none" }

Without(f, k) == [x \in (DOMAIN f) \ {k} |-> f[x]]

With(f, k, v) == [x \in (DOMAIN f) \cup {k} |-> IF x = k THEN v ELSE f[x]]

\* x -= 1 on a u32 whose overflow is not checked
DecU32(x) == IF x = -I32Max - 1 THEN I32Max ELSE x - 1

\* x > 0 on a u32
GtZeroU32(x) == x # 0

\* n as u32, for a length n
AsU32(n) == n

SerId(id) == ToString(id)

\* room.in_game_count -= 1.  At 0 the subtraction overflows: a build with
\* overflow checks (the debug profile) panics, a build without (the release
\* profile) wraps to 2^32 - 1.  Which build runs shows at the first
\* overflow and stays the same from then on.
decrement_in_game_count(w, room_id) ==
    IF w.rooms[room_id].in_game_count # 0
      THEN {[w EXCEPT !.rooms[room_id].in_game_count = DecU32(@)]}
      ELSE (IF w.overflow_checks \in {"either", "checked"}
              THEN {Panic([w EXCEPT !.overflow_checks = "checked"],
                          "attempt to subtract with overflow")}
              ELSE {})
           \cup
           (IF w.overflow_checks \in {"either", "wrapping"}
              THEN {[w EXCEPT !.overflow_checks = "wrapping",
                              !.rooms[room_id].in_game_count = DecU32(@)]}
              ELSE {})

(* ------------------------ ServerActor's methods ----------------------- *)

allocate_player_id(w, data) ==
    { Return([w EXCEPT !.players = With(@, id, [data EXCEPT !.obj.id = id])],
             [NoRet EXCEPT !.tag = "Id", !.id = id])
      : id \in PlayerIds \ DOMAIN w.players }

\* create_room without players.insert(host_id)
create_room_without_host(w, host_id, public) ==
    UNION {
      LET room == RoomData(Matchmaking, {}, 0)
          w1 == [w EXCEPT !.rooms = With(@, id, room)]
      IN  IF host_id \notin DOMAIN w1.players
            THEN {Panic(w1, "create_room: unwrap on None")}
            ELSE {Return([w1 EXCEPT !.players[host_id].obj.is_host = TRUE,
                                    !.players[host_id].room = id,
                                    !.available_rooms =
                                        IF public THEN @ \cup {id} ELSE @],
                         [NoRet EXCEPT !.room_id = id])}
      : id \in RoomIds \ DOMAIN w.rooms }

create_room(w, host_id, public) ==
    UNION {
      LET room == RoomData(Matchmaking, {host_id}, 0)
          w1 == [w EXCEPT !.rooms = With(@, id, room)]
      IN  IF host_id \notin DOMAIN w1.players
            THEN {Panic(w1, "create_room: unwrap on None")}
            ELSE {Return([w1 EXCEPT !.players[host_id].obj.is_host = TRUE,
                                    !.players[host_id].room = id,
                                    !.available_rooms =
                                        IF public THEN @ \cup {id} ELSE @],
                         [NoRet EXCEPT !.room_id = id])}
      : id \in RoomIds \ DOMAIN w.rooms }

\* remove_room without self.available_rooms.remove(&room_id)
remove_room_keeps_pool_entry(w, room_id) ==
    [w EXCEPT !.rooms = Without(@, room_id)]

remove_room(w, room_id) ==
    [w EXCEPT !.rooms = Without(@, room_id),
              !.available_rooms = @ \ {room_id}]

\* broadcast_event_room without `if player.in_game { continue; }`
broadcast_event_room_to_in_game_too(w, room, event, skip_id) ==
    DoSend(w, { [event EXCEPT !.to = id] :
                id \in { x \in room.players :
                           /\ x # skip_id
                           /\ x \in DOMAIN w.players } })

broadcast_event_room(w, room, event, skip_id) ==
    DoSend(w, { [event EXCEPT !.to = id] :
                id \in { x \in room.players :
                           /\ x # skip_id
                           /\ x \in DOMAIN w.players
                           /\ ~w.players[x].in_game } })

\* broadcast_event passing None on instead of skip_id
broadcast_event_skipping_nobody(w, room, event, skip_id) ==
    IF room \in DOMAIN w.rooms
      THEN broadcast_event_room(w, w.rooms[room], event, None)
      ELSE w

broadcast_event(w, room, event, skip_id) ==
    IF room \in DOMAIN w.rooms
      THEN broadcast_event_room(w, w.rooms[room], event, skip_id)
      ELSE w

\* the tail of leave_room_if_any, once first_player is what the iterator
\* of the remaining members yields first
leave_room_notify(w, player_id, room_id, was_player_host, first_player) ==
    IF was_player_host /\ first_player \notin DOMAIN w.players
      THEN Panic(w, "Invalid player")
      ELSE
        LET w1 == IF was_player_host
                    THEN [w EXCEPT !.players[first_player].obj.is_host = TRUE]
                    ELSE w
            new_host == IF was_player_host
                          THEN w1.players[first_player].obj.id
                          ELSE None
            event == [NoEvent EXCEPT !.kind = "EventPlayerLeft",
                                     !.player = player_id, !.new_host = new_host]
            in_game_event == [NoEvent EXCEPT !.kind = "PlayerLeft",
                                     !.player = player_id, !.new_host = new_host]
        IN  DoSend(w1, { IF w1.players[id].in_game
                           THEN [in_game_event EXCEPT !.to = id]
                           ELSE [event EXCEPT !.to = id]
                         : id \in w1.rooms[room_id].players \cap DOMAIN w1.players })

leave_room_if_any(w, player_id) ==
    IF player_id \notin DOMAIN w.players THEN {w}
    ELSE IF w.players[player_id].room = None THEN {w}
    ELSE
      LET player == w.players[player_id]
          room_id == player.room
      IN  IF room_id \notin DOMAIN w.rooms THEN {Panic(w, "Cannot find room")}
          ELSE
            LET w1 == [w EXCEPT !.rooms[room_id].players = @ \ {player_id}]
                counted == IF player.in_game
                             THEN decrement_in_game_count(w1, room_id)
                             ELSE {w1}
            IN  Failed(counted) \cup UNION {
                  LET w3 == [w2 EXCEPT !.players[player_id].room = None,
                                       !.players[player_id].obj.is_host = FALSE]
                      remaining == w3.rooms[room_id].players
                  IN  IF remaining = {}
                        THEN {remove_room(w3, room_id)}
                        ELSE { leave_room_notify(w3, player_id, room_id,
                                                 player.obj.is_host, first_player)
                               : first_player \in remaining }
                  : w2 \in Ok(counted) }

join_room(w, player_id, room_id) ==
    LET left == leave_room_if_any(w, player_id)
    IN  Failed(left) \cup UNION {
      IF room_id \notin DOMAIN w1.rooms
        THEN {Panic(w1, "join_room: unwrap on None")}
        ELSE
          LET w2 == [w1 EXCEPT !.rooms[room_id].players = @ \cup {player_id}]
              room_data == w2.rooms[room_id]
          IN  IF room_data.state # Matchmaking
                THEN {Return(w2, [NoRet EXCEPT !.tag = "false"])}
                ELSE IF player_id \notin DOMAIN w2.players
                  THEN {Panic(w2, "Cannot find player")}
                  ELSE
                    LET w3 == [w2 EXCEPT !.players[player_id].room = room_id]
                        o == w3.players[player_id].obj
                    IN  {Return(broadcast_event_room(w3, room_data,
                                  [NoEvent EXCEPT !.kind = "EventPlayerJoined",
                                                  !.player = o.id,
                                                  !.username = o.username,
                                                  !.cosmetics = o.cosmetics,
                                                  !.is_host = o.is_host],
                                  None),
                                [NoRet EXCEPT !.tag = "true"])}
      : w1 \in Ok(left) }

\* the closure FindRoom passes as find_if: |_, _| { true }
find_if(room_id, room_data) == TRUE

\* The loop visits the pool in iteration order, at most max_iter rooms when
\* max_iter > 0, and keeps the LAST room find_if accepts.
find_available_room_for(w, player_id, max_iter) ==
    LET pool == w.available_rooms
        n == IF max_iter > 0 /\ max_iter < Cardinality(pool)
               THEN max_iter ELSE Cardinality(pool)
    IN  UNION {
          IF \E r \in visited : r \notin DOMAIN w.rooms
            THEN {Panic(w, "find_available_room_for: unwrap on None")}
            ELSE
              LET matches == { r \in visited : find_if(r, w.rooms[r]) }
              IN  IF matches = {}
                    THEN {Return(w, [NoRet EXCEPT !.tag = "None"])}
                    ELSE { Return([w EXCEPT !.rooms[found_room_id].players =
                                              @ \cup {player_id}],
                                  [NoRet EXCEPT !.tag = "Some",
                                                !.room_id = found_room_id])
                           : found_room_id \in matches }
          : visited \in { v \in SUBSET pool : Cardinality(v) = n } }

\* room.players.iter().map(|x| self.players.get(x).expect(..).obj.clone())
member_objects(w, room_id, r) ==
    IF room_id \notin DOMAIN w.rooms
      THEN Panic(w, "member list: unwrap on None")
      ELSE IF \E x \in w.rooms[room_id].players : x \notin DOMAIN w.players
        THEN Panic(w, "Cannot find player")
        ELSE Return(w, [r EXCEPT !.players =
                          { w.players[x].obj : x \in w.rooms[room_id].players }])

(* ------------------------------ handlers ------------------------------ *)

handle_RegisterSession(w, id, username, cosmetics) ==
    IF id # None
      THEN IF id \notin DOMAIN w.players
             THEN {Panic(w, "Invalid player")}
             ELSE {Return(IF w.players[id].room = None
                            THEN [w EXCEPT !.players[id].obj.username = username,
                                           !.players[id].obj.cosmetics = cosmetics]
                            ELSE w,
                          [NoRet EXCEPT !.tag = "Id", !.id = id])}
      ELSE allocate_player_id(w,
             UserData(PlayerObject(0, username, cosmetics, FALSE), None, FALSE))

handle_Disconnect(w, id) ==
    LET left == leave_room_if_any(w, id)
    IN  Failed(left) \cup { [w1 EXCEPT !.players = Without(@, id)] : w1 \in Ok(left) }

handle_FindRoom(w, my_id) ==
    LET found == find_available_room_for(w, my_id, -1)
        joined_or_created ==
          Failed(found) \cup UNION {
            IF w1.ret.tag = "Some"
              THEN LET joined == join_room(w1, my_id, w1.ret.room_id)
                   IN  Failed(joined) \cup
                       { Return(w2, [NoRet EXCEPT !.room_id = w1.ret.room_id,
                                                  !.just_created = FALSE])
                         : w2 \in Ok(joined) }
              ELSE LET created == create_room(w1, my_id, TRUE)
                   IN  Failed(created) \cup
                       { Return(w2, [NoRet EXCEPT !.room_id = w2.ret.room_id,
                                                  !.just_created = TRUE])
                         : w2 \in Ok(created) }
            : w1 \in Ok(found) }
    IN  Failed(joined_or_created) \cup
        { member_objects(w3, w3.ret.room_id, [w3.ret EXCEPT !.tag = "Success"])
          : w3 \in Ok(joined_or_created) }

handle_CreateRoom(w, id) ==
    LET left == leave_room_if_any(w, id)
        created == Failed(left) \cup UNION { create_room(w1, id, FALSE) : w1 \in Ok(left) }
    IN  Failed(created) \cup
        { IF id \notin DOMAIN w2.players
            THEN Panic(w2, "Cannot find player")
            ELSE Return(w2, [NoRet EXCEPT !.tag = "CreateRoomResult",
                                          !.room_id = w2.ret.room_id,
                                          !.players = {w2.players[id].obj}])
          : w2 \in Ok(created) }

handle_JoinRoom(w, player_id, room_id) ==
    IF room_id \notin DOMAIN w.rooms
      THEN {Return(w, [NoRet EXCEPT !.tag = "RoomNotFound"])}
      ELSE LET joined == join_room(w, player_id, room_id)
           IN  Failed(joined) \cup
               { IF w1.ret.tag = "false"
                   THEN Return(w1, [NoRet EXCEPT !.tag = "AlreadyPlaying"])
                   ELSE member_objects(w1, room_id, [NoRet EXCEPT !.tag = "Success"])
                 : w1 \in Ok(joined) }

handle_EditCosmetics(w, id, obj) ==
    IF id \notin DOMAIN w.players THEN {Panic(w, "Invalid player")}
    ELSE IF w.players[id].obj.cosmetics = obj THEN {w}
    ELSE
      LET w1 == [w EXCEPT !.players[id].obj.cosmetics = obj]
          player == w1.players[id]
      IN  IF player.room = None THEN {w1}
          ELSE {broadcast_event(w1, player.room,
                  [NoEvent EXCEPT !.kind = "EventPlayerAvatarChange",
                                  !.player = player.obj.id, !.cosmetics = obj],
                  id)}

handle_LeaveRoom(w, id) == leave_room_if_any(w, id)

\* for id in in_game_players { self.leave_room_if_any(id) }, the vector
\* being in the iteration order of the member set
RECURSIVE kick_in_game_players(_, _)
kick_in_game_players(w, in_game_players) ==
    IF in_game_players = {} \/ w.fault # "none" THEN {w}
    ELSE UNION { UNION { kick_in_game_players(w1, in_game_players \ {id})
                         : w1 \in leave_room_if_any(w, id) }
                 : id \in in_game_players }

\* the closing loop of StartRoom over the members that are registered
start_members(w, room_id, event) ==
    LET members == w.rooms[room_id].players
        known == members \cap DOMAIN w.players
        w1 == [w EXCEPT
                 !.players = [p \in DOMAIN @ |->
                                IF p \in known THEN [@[p] EXCEPT !.in_game = TRUE]
                                               ELSE @[p]],
                 !.rooms[room_id].in_game_count = AsU32(Cardinality(members))]
    IN  DoSend(w1, { [event EXCEPT !.to = id] : id \in known })

\* if room.state != RoomState::Matchmaking || room.players.len() < 2 { return }
start_rejected_one_is_enough(room) ==
    room.state # Matchmaking \/ Cardinality(room.players) < 1

start_rejected(room) ==
    room.state # Matchmaking \/ Cardinality(room.players) < 2

\* StartRoom without self.available_rooms.remove(&room_id)
pool_entry_kept(w, room_id) == w

\* self.available_rooms.remove(&room_id)
retire_pool_entry(w, room_id) == [w EXCEPT !.available_rooms = @ \ {room_id}]

handle_StartRoom(w, id, conn_type) ==
    LET room_id == IF id \in DOMAIN w.players THEN w.players[id].room ELSE None
    IN  IF room_id = None \/ room_id \notin DOMAIN w.rooms THEN {w}
        ELSE
          LET w1 == retire_pool_entry(w, room_id)
              room == w1.rooms[room_id]
          IN  IF start_rejected(room) THEN {w1}
              ELSE
                LET w2 == [w1 EXCEPT !.rooms[room_id].state = Playing]
                    event == [NoEvent EXCEPT !.kind = "EventRoomStart",
                                             !.connection_type = conn_type,
                                             !.broadcast_id = ToString(room_id)]
                    in_game_players == { x \in room.players :
                                           /\ x \in DOMAIN w2.players
                                           /\ w2.players[x].in_game }
                    kicked == IF GtZeroU32(room.in_game_count)
                                THEN kick_in_game_players(w2, in_game_players)
                                ELSE {w2}
                IN  Failed(kicked) \cup
                    { IF room_id \notin DOMAIN w3.rooms THEN w3
                      ELSE start_members(w3, room_id, event)
                      : w3 \in Ok(kicked) }

\* str::is_char_boundary(1) of a non-empty string
is_char_boundary_1(data) == Utf8Len(Head(data)) = 1

\* format!("{{\"sender\":\"{}\",{}", SerId(sender_id), &data[1..])
relay_raw(sender_id, data) ==
    <<"{", "\"sender\":", "\"", SerId(sender_id), "\"", ",">> \o Tail(data)

handle_SendRelayMex(w, sender_id, data) ==
    IF data = <<>> THEN {w}
    ELSE IF sender_id \notin DOMAIN w.players THEN {Panic(w, "Expected player")}
    ELSE
      LET room_id == w.players[sender_id].room
      IN  IF room_id = None \/ room_id \notin DOMAIN w.rooms THEN {w}
          ELSE IF ~is_char_boundary_1(data)
            THEN {Panic(w, "byte index 1 is not a char boundary")}
            ELSE
              LET raw_pkt == [NoEvent EXCEPT !.kind = "SendRelayMexRaw",
                                             !.data = relay_raw(sender_id, data)]
              IN  {DoSend(w, { [raw_pkt EXCEPT !.to = p] :
                               p \in { x \in w.rooms[room_id].players :
                                         /\ x # sender_id
                                         /\ x \in DOMAIN w.players
                                         /\ w.players[x].in_game } })}

handle_GameEndRequest(w, id) ==
    IF id \notin DOMAIN w.players THEN {Panic(w, "Invalid player")}
    ELSE
      LET player == w.players[id]
          none == Return(w, [NoRet EXCEPT !.tag = "None"])
      IN  IF player.room = None \/ player.room \notin DOMAIN w.rooms THEN {none}
          ELSE IF ~player.in_game THEN {none}
          ELSE
            LET room_id == player.room
                w1 == [w EXCEPT !.rooms[room_id].state = Matchmaking,
                                !.players[id].in_game = FALSE]
                counted == decrement_in_game_count(w1, room_id)
            IN  Failed(counted) \cup
                { member_objects(w2, room_id, [NoRet EXCEPT !.tag = "Some"])
                  : w2 \in Ok(counted) }

(* --------------------------- the state machine ------------------------ *)

\* ServerActor::default(); whether the build checks integer overflow is
\* open until the first overflow.
Init ==
    /\ players = <<>>
    /\ rooms = <<>>
    /\ available_rooms = {}
    /\ overflow_checks = "either"
    /\ fault = "none"
    /\ sent = EmptyBag
    /\ last_msg = NoMsg
    /\ ret = NoRet
    /\ handled = 0

\* The actor handles msg to completion, ending in one of the worlds W; a
\* panicked actor handles nothing more.  RegisterSession may carry any id;
\* every other message carries the id of a session that has registered and
\* has not disconnected, the id its ClientWs was given.
Handle(msg, W) ==
    /\ fault = "none"
    /\ handled < MaxMessages
    /\ handled' = handled + 1
    /\ \E w \in W :
         /\ players' = w.players
         /\ rooms' = w.rooms
         /\ available_rooms' = w.available_rooms
         /\ overflow_checks' = w.overflow_checks
         /\ fault' = w.fault
         /\ sent' = w.sent
         /\ ret' = w.ret
    /\ last_msg' = msg

RegisterSession ==
    \E id \in {None} \cup PlayerIds, u \in Usernames, c \in LoginCosmetics :
      Handle(Msg("RegisterSession", id, None, u, c, "", <<>>),
             handle_RegisterSession(World, id, u, c))

Disconnect ==
    \E id \in DOMAIN players :
      Handle(Msg("Disconnect", id, None, "", "", "", <<>>),
             handle_Disconnect(World, id))

FindRoom ==
    \E id \in DOMAIN players :
      Handle(Msg("FindRoom", id, None, "", "", "", <<>>),
             handle_FindRoom(World, id))

CreateRoom ==
    \E id \in DOMAIN players :
      Handle(Msg("CreateRoom", id, None, "", "", "", <<>>),
             handle_CreateRoom(World, id))

JoinRoom ==
    \E id \in DOMAIN players, room_id \in RoomIds :
      Handle(Msg("JoinRoom", id, room_id, "", "", "", <<>>),
             handle_JoinRoom(World, id, room_id))

LeaveRoom ==
    \E id \in DOMAIN players :
      Handle(Msg("LeaveRoom", id, None, "", "", "", <<>>),
             handle_LeaveRoom(World, id))

EditCosmetics ==
    \E id \in DOMAIN players, c \in CosmeticsValues :
      Handle(Msg("EditCosmetics", id, None, "", c, "", <<>>),
             handle_EditCosmetics(World, id, c))

StartRoom ==
    \E id \in DOMAIN players, t \in ConnTypes :
      Handle(Msg("StartRoom", id, None, "", "", t, <<>>),
             handle_StartRoom(World, id, t))

RelayMessage ==
    \E id \in DOMAIN players, data \in Payloads :
      Handle(Msg("RelayMessage", id, None, "", "", "", data),
             handle_SendRelayMex(World, id, data))

GameEndRequest ==
    \E id \in DOMAIN players :
      Handle(Msg("GameEndRequest", id, None, "", "", "", <<>>),
             handle_GameEndRequest(World, id))

Next ==
    \/ RegisterSession
    \/ Disconnect
    \/ FindRoom
    \/ CreateRoom
    \/ JoinRoom
    \/ LeaveRoom
    \/ EditCosmetics
    \/ StartRoom
    \/ RelayMessage
    \/ GameEndRequest

Spec == Init /\ [][Next]_vars

(* ------------------------------- claims ------------------------------- *)

Registered == DOMAIN players

\* the members of room r that are registered and flagged host / in game
Hosts(r) == { p \in rooms[r].players \cap Registered : players[p].obj.is_host }

InGameMembers(r) == { p \in rooms[r].players \cap Registered : players[p].in_game }

\* C1: after every processed message every room has a non-empty member set
\* and exactly one of its members has is_host = true.
C1_EveryRoomHasExactlyOneHost ==
    fault = "none" =>
      \A r \in DOMAIN rooms :
        rooms[r].players # {} /\ Cardinality(Hosts(r)) = 1

\* C2: after every processed message each room's in_game_count equals the
\* number of its members that are registered players with in_game = true.
C2_InGameCountIsNumberInGame ==
    fault = "none" =>
      \A r \in DOMAIN rooms :
        rooms[r].in_game_count = Cardinality(InGameMembers(r))

\* C3: after every processed message, for every registered player whose
\* room is Some(r), r is a key of the room registry and r's member set
\* holds the player's id.
C3_PlayerRoomExistsAndListsPlayer ==
    fault = "none" =>
      \A p \in Registered :
        players[p].room # None =>
          /\ players[p].room \in DOMAIN rooms
          /\ p \in rooms[players[p].room].players

\* a host has just left a room it shared and the member promoted in its
\* place has that room as its room: create, join and departure have acted
C3_Witness ==
    /\ fault = "none"
    /\ last_msg.op \in {"LeaveRoom", "Disconnect"}
    /\ \E e \in BagToSet(sent) :
         /\ e.new_host \in Registered
         /\ players[e.new_host].room # None
         /\ e.new_host \in rooms[players[e.new_host].room].players

\* C4: after every processed message every id in available_rooms is the id
\* of an existing room whose state is Matchmaking.
C4_PoolHoldsExistingMatchmakingRooms ==
    fault = "none" =>
      \A r \in available_rooms :
        r \in DOMAIN rooms /\ rooms[r].state = Matchmaking

\* the pool lists a room while another room, started, is Playing
C4_Witness ==
    /\ fault = "none"
    /\ \E r \in available_rooms, r2 \in DOMAIN rooms : rooms[r2].state = Playing

\* C5: RegisterSession with a supplied id that is not a key of the player
\* registry does not fail: it allocates a new player with is_host = false,
\* in_game = false and room = None and returns the freshly allocated id.
C5_UnknownIdAllocatesNewPlayer ==
    [][ (last_msg'.op = "RegisterSession" /\ last_msg'.id # None
         /\ last_msg'.id \notin DOMAIN players)
        => /\ fault' = "none"
           /\ ret'.tag = "Id"
           /\ ret'.id \in (DOMAIN players') \ DOMAIN players
           /\ players'[ret'.id] =
                UserData(PlayerObject(ret'.id, last_msg'.username,
                                      last_msg'.cosmetics, FALSE), None, FALSE)
      ]_vars

\* C6: FindRoom(p) by a registered player completes with Success{room,
\* players, created}: afterwards p.room = room, p is a member of room and
\* players is the profile list of room's members; created is true iff the
\* pool was empty before, in which case room is a new room in the pool with
\* p as sole member and host, and otherwise room was already in the pool
\* and p is added to it as a non-host member.
C6_FindRoomAlwaysSucceeds ==
    [][ last_msg'.op = "FindRoom"
        => LET p == last_msg'.id
               r == ret'.room_id
           IN  /\ fault' = "none"
               /\ ret'.tag = "Success"
               /\ r \in DOMAIN rooms'
               /\ players'[p].room = r
               /\ p \in rooms'[r].players
               /\ ret'.players = { players'[x].obj : x \in rooms'[r].players }
               /\ ret'.just_created = (available_rooms = {})
               /\ available_rooms = {} =>
                    /\ r \notin DOMAIN rooms
                    /\ r \in available_rooms'
                    /\ rooms'[r].players = {p}
                    /\ players'[p].obj.is_host
               /\ available_rooms # {} =>
                    /\ r \in available_rooms
                    /\ ~players'[p].obj.is_host
      ]_vars

\* C7: JoinRoom(p, r) on an existing room in state Playing returns
\* AlreadyPlaying, and afterwards p has left its previous room, p is in r's
\* member set, p.room is None and no player-joined event was sent; on an
\* existing room in state Matchmaking it returns Success with the profile
\* list of r's members, p included.
C7_JoinRoomOutcome ==
    [][ (last_msg'.op = "JoinRoom" /\ last_msg'.room_id \in DOMAIN rooms)
        => LET p == last_msg'.id
               r == last_msg'.room_id
               old == players[p].room
           IN  IF rooms[r].state = Playing
                 THEN /\ fault' = "none"
                      /\ ret'.tag = "AlreadyPlaying"
                      /\ (old # None /\ old # r) =>
                           (old \notin DOMAIN rooms' \/ p \notin rooms'[old].players)
                      /\ r \in DOMAIN rooms'
                      /\ p \in rooms'[r].players
                      /\ players'[p].room = None
                      /\ \A e \in BagToSet(sent') : e.kind # "EventPlayerJoined"
                 ELSE /\ fault' = "none"
                      /\ ret'.tag = "Success"
                      /\ r \in DOMAIN rooms'
                      /\ ret'.players = { players'[x].obj : x \in rooms'[r].players }
                      /\ players'[p].obj \in ret'.players
      ]_vars

\* C8: when a departure (here by LeaveRoom or Disconnect, the handlers that
\* do nothing else) takes the host out of a room that still has members, exactly
\* one remaining member has is_host = true afterwards, the departed player
\* has is_host = false and the player-left events carry that host's id;
\* when it takes out the last member, the room leaves the room registry and
\* the pool in the same step.
C8_HostHandoverOnDeparture ==
    [][ ( /\ last_msg'.op \in {"LeaveRoom", "Disconnect"}
          /\ players[last_msg'.id].room # None )
        => LET p == last_msg'.id
               r == players[p].room
               remaining == rooms[r].players \ {p}
           IN  /\ fault' = "none"
               /\ (remaining # {} /\ players[p].obj.is_host) =>
                    /\ r \in DOMAIN rooms'
                    /\ rooms'[r].players = remaining
                    /\ \E h \in remaining :
                         /\ { q \in remaining \cap DOMAIN players' :
                                players'[q].obj.is_host } = {h}
                         /\ \A e \in BagToSet(sent') :
                              e.kind \in {"EventPlayerLeft", "PlayerLeft"}
                                => e.new_host = h
                    /\ p \in DOMAIN players' => ~players'[p].obj.is_host
               /\ remaining = {} =>
                    /\ r \notin DOMAIN rooms'
                    /\ r \notin available_rooms'
      ]_vars

\* C9: StartRoom by a player whose room has exactly one member, or whose
\* room is already Playing, changes nothing but the pool: the room's state
\* stays as it was, the room id is not in the pool afterwards, no in_game
\* flag and no in_game_count changes, and no room-start event is delivered.
C9_RejectedStartOnlyRetiresPoolEntry ==
    [][ ( /\ last_msg'.op = "StartRoom"
          /\ players[last_msg'.id].room # None
          /\ LET room == rooms[players[last_msg'.id].room]
             IN  Cardinality(room.players) = 1 \/ room.state = Playing )
        => /\ fault' = "none"
           /\ rooms' = rooms
           /\ players' = players
           /\ available_rooms' = available_rooms \ {players[last_msg'.id].room}
           /\ sent' = EmptyBag
      ]_vars

\* StartRoom was handled for the sole member of a room still in Matchmaking
\* that FindRoom had listed in the pool (no other room exists, the pool is
\* empty now)
C9_Witness ==
    /\ fault = "none"
    /\ last_msg.op = "StartRoom"
    /\ players[last_msg.id].room # None
    /\ LET room == rooms[players[last_msg.id].room]
       IN  /\ Cardinality(room.players) = 1
           /\ room.state = Matchmaking
    /\ available_rooms = {}
    /\ sent = EmptyBag

\* the sender field of a relayed record: the value of its leading field
SenderField(raw) ==
    IF Len(raw) >= 6 /\ raw[1] = "{" /\ raw[2] = "\"sender\":" /\ raw[3] = "\""
         /\ raw[5] = "\""
      THEN raw[4] ELSE ""

\* C10: RelayMessage(sender, payload) with a non-empty payload delivers the
\* rewritten payload once to each member of the sender's room, other than
\* the sender, that has in_game = true, and to nobody else; the delivered
\* payload's sender field is the sender's id; no registry or pool state
\* changes.
C10_RelayReachesInGamePeers ==
    [][ (last_msg'.op = "RelayMessage" /\ last_msg'.data # <<>>)
        => LET s == last_msg'.id
               r == players[s].room
               targets == IF r = None THEN {}
                          ELSE { x \in rooms[r].players \ {s} :
                                   x \in DOMAIN players /\ players[x].in_game }
           IN  /\ fault' = "none"
               /\ players' = players
               /\ rooms' = rooms
               /\ available_rooms' = available_rooms
               /\ { e.to : e \in BagToSet(sent') } = targets
               /\ \A e \in BagToSet(sent') :
                    /\ CopiesIn(e, sent') = 1
                    /\ e.kind = "SendRelayMexRaw"
                    /\ SenderField(e.data) = SerId(s)
               /\ Cardinality(BagToSet(sent')) = Cardinality(targets)
      ]_vars

\* C11: GameEndRequest(p) for a registered player p that has no room or has
\* in_game = false returns None and leaves every player, room and pool
\* entry unchanged; for p in a room with in_game = true it sets the room's
\* state to Matchmaking, clears p.in_game, decrements the room's
\* in_game_count by one (as numbers: the count was not 0) and returns the
\* profile list of the room's members.
C11_GameEndRequestOutcome ==
    [][ last_msg'.op = "GameEndRequest"
        => LET p == last_msg'.id
               r == players[p].room
           IN  IF r = None \/ ~players[p].in_game
                 THEN /\ fault' = "none"
                      /\ ret'.tag = "None"
                      /\ players' = players
                      /\ rooms' = rooms
                      /\ available_rooms' = available_rooms
                 ELSE /\ fault' = "none"
                      /\ ret'.tag = "Some"
                      /\ rooms'[r].state = Matchmaking
                      /\ ~players'[p].in_game
                      /\ rooms[r].in_game_count # 0
                      /\ rooms'[r].in_game_count = rooms[r].in_game_count - 1
                      /\ ret'.players = { players'[x].obj : x \in rooms'[r].players }
      ]_vars

\* C12: when a member departs (here by LeaveRoom or Disconnect, the handlers
\* that do nothing else) a room that remains non-empty, every remaining
\* registered member receives exactly one leave notification, PlayerLeft if
\* its in_game flag is true and EventPlayerLeft otherwise, the departing
\* player receives none, and if the departing player was in_game the room's
\* in_game_count decreases by exactly one.
C12_DepartureNotifiesRemainingMembers ==
    [][ ( /\ last_msg'.op \in {"LeaveRoom", "Disconnect"}
          /\ players[last_msg'.id].room # None
          /\ rooms[players[last_msg'.id].room].players \ {last_msg'.id} # {} )
        => LET p == last_msg'.id
               r == players[p].room
               remaining == (rooms[r].players \ {p}) \cap DOMAIN players
           IN  /\ fault' = "none"
               /\ r \in DOMAIN rooms'
               /\ { e.to : e \in BagToSet(sent') } = remaining
               /\ \A e \in BagToSet(sent') :
                    /\ CopiesIn(e, sent') = 1
                    /\ e.player = p
                    /\ e.kind = IF players[e.to].in_game THEN "PlayerLeft"
                                                         ELSE "EventPlayerLeft"
               /\ Cardinality(BagToSet(sent')) = Cardinality(remaining)
               /\ players[p].in_game =>
                    /\ rooms[r].in_game_count # 0
                    /\ rooms'[r].in_game_count = rooms[r].in_game_count - 1
      ]_vars

\* C13: on a successful join (JoinRoom returning Success, or FindRoom
\* joining an existing room) the player-joined event is delivered exactly
\* once to every other member of the room that has in_game = false, and is
\* delivered neither to the joining player nor to members with
\* in_game = true.
C13_JoinAnnouncedToOtherLobbyMembers ==
    [][ ( /\ fault' = "none"
          /\ \/ last_msg'.op = "JoinRoom" /\ ret'.tag = "Success"
             \/ last_msg'.op = "FindRoom" /\ ret'.tag = "Success"
                  /\ ~ret'.just_created )
        => LET p == last_msg'.id
               r == players'[p].room
               joined == { e \in BagToSet(sent') : e.kind = "EventPlayerJoined" }
               targets == { x \in (rooms'[r].players \ {p}) \cap DOMAIN players' :
                              ~players'[x].in_game }
           IN  /\ { e.to : e \in joined } = targets
               /\ \A e \in joined : CopiesIn(e, sent') = 1 /\ e.player = p
               /\ Cardinality(joined) = Cardinality(targets)
      ]_vars

\* C13, as the code has it: on a successful join the player-joined event is
\* delivered exactly once to every registered member of the room that has
\* in_game = false, the joining player included, and to no member with
\* in_game = true; it carries the joining player's profile.
C13_JoinAnnouncedToAllLobbyMembers ==
    [][ ( /\ fault' = "none"
          /\ \/ last_msg'.op = "JoinRoom" /\ ret'.tag = "Success"
             \/ last_msg'.op = "FindRoom" /\ ret'.tag = "Success"
                  /\ ~ret'.just_created )
        => LET p == last_msg'.id
               r == players'[p].room
               joined == { e \in BagToSet(sent') : e.kind = "EventPlayerJoined" }
               targets == { x \in rooms'[r].players \cap DOMAIN players' :
                              ~players'[x].in_game }
           IN  /\ { e.to : e \in joined } = targets
               /\ \A e \in joined :
                    /\ CopiesIn(e, sent') = 1
                    /\ e.player = p
                    /\ e.username = players'[p].obj.username
                    /\ e.cosmetics = players'[p].obj.cosmetics
                    /\ e.is_host = players'[p].obj.is_host
               /\ Cardinality(joined) = Cardinality(targets)
      ]_vars

\* a join succeeded into a room that has a member still in game: the
\* joining player received the player-joined event, that member did not
C13_Witness ==
    /\ fault = "none"
    /\ last_msg.op \in {"JoinRoom", "FindRoom"}
    /\ ret.tag = "Success" /\ ~ret.just_created
    /\ \E e \in BagToSet(sent) : e.kind = "EventPlayerJoined" /\ e.to = last_msg.id
    /\ \E x \in rooms[players[last_msg.id].room].players \cap DOMAIN players :
         /\ players[x].in_game
         /\ \A e \in BagToSet(sent) : e.kind = "EventPlayerJoined" => e.to # x

\* C14: EditCosmetics(p, c) with c equal to p's current cosmetics emits no
\* event and changes no state; with c different it updates p's cosmetics
\* (and nothing else) and, if p is in a room, delivers exactly one
\* avatar-changed event to each other registered member of that room with
\* in_game = false and none to p; if p has no room nothing is delivered.
C14_EditCosmeticsBroadcast ==
    [][ last_msg'.op = "EditCosmetics"
        => LET p == last_msg'.id
               c == last_msg'.cosmetics
               r == players[p].room
               targets == IF r = None THEN {}
                          ELSE { x \in (rooms[r].players \ {p}) \cap DOMAIN players :
                                   ~players[x].in_game }
           IN  /\ fault' = "none"
               /\ rooms' = rooms
               /\ available_rooms' = available_rooms
               /\ IF c = players[p].obj.cosmetics
                    THEN players' = players /\ sent' = EmptyBag
                    ELSE /\ players' = [players EXCEPT ![p].obj.cosmetics = c]
                         /\ { e.to : e \in BagToSet(sent') } = targets
                         /\ \A e \in BagToSet(sent') :
                              /\ CopiesIn(e, sent') = 1
                              /\ e.kind = "EventPlayerAvatarChange"
                              /\ e.player = p
                              /\ e.cosmetics = c
                         /\ Cardinality(BagToSet(sent')) = Cardinality(targets)
      ]_vars

\* a player changed its cosmetics in a room it shares with a member in the
\* lobby, who was told
C14_Witness ==
    /\ fault = "none"
    /\ last_msg.op = "EditCosmetics"
    /\ players[last_msg.id].room # None
    /\ players[last_msg.id].obj.cosmetics = "blue"
    /\ \E e \in BagToSet(sent) :
         /\ e.kind = "EventPlayerAvatarChange"
         /\ e.cosmetics = "blue"
         /\ e.to # last_msg.id
         /\ e.to \in rooms[players[last_msg.id].room].players

\* the room-start events of a bag of deliveries
RoomStarts(b) == { e \in BagToSet(b) : e.kind = "EventRoomStart" }

\* C15: after a StartRoom that is not rejected and whose room survives the
\* eviction of stragglers, the room's state is Playing, every member of the
\* room has in_game = true and received exactly one room-start event, the
\* room's in_game_count equals its member count, and every member that was
\* flagged in_game before the call has been removed from the room and
\* received no room-start event; if eviction destroys the room, no
\* room-start event is delivered to anyone.
C15_StartAfterStragglerEviction ==
    [][ ( /\ last_msg'.op = "StartRoom"
          /\ players[last_msg'.id].room # None
          /\ ~start_rejected(rooms[players[last_msg'.id].room]) )
        => LET r == players[last_msg'.id].room
               stragglers == { x \in rooms[r].players \cap DOMAIN players :
                                 players[x].in_game }
           IN  /\ fault' = "none"
               /\ IF r \in DOMAIN rooms'
                    THEN /\ rooms'[r].state = Playing
                         /\ \A m \in rooms'[r].players :
                              /\ m \in DOMAIN players'
                              /\ players'[m].in_game
                              /\ \E e \in RoomStarts(sent') :
                                   /\ e.to = m
                                   /\ CopiesIn(e, sent') = 1
                                   /\ \A e2 \in RoomStarts(sent') : e2.to = m => e2 = e
                         /\ rooms'[r].in_game_count = Cardinality(rooms'[r].players)
                         /\ \A s \in stragglers :
                              /\ s \notin rooms'[r].players
                              /\ \A e \in RoomStarts(sent') : e.to # s
                    ELSE RoomStarts(sent') = {}
      ]_vars

\* C16: once a StartRoom message has been processed for a caller whose room
\* is r, r is never again in the pool for the rest of that room's lifetime,
\* in particular not after a GameEndRequest returns r to Matchmaking; the
\* pool only ever gains a room id at the moment FindRoom creates that room.
\* Step by step: a StartRoom for a caller in r leaves r out of the pool, and
\* an id that enters the pool is the id of a room that did not exist before
\* the step and that the FindRoom just handled created.
C16_StartedRoomNeverRelisted ==
    [][ /\ ( last_msg'.op = "StartRoom" /\ players[last_msg'.id].room # None )
           => players[last_msg'.id].room \notin available_rooms'
        /\ \A r \in available_rooms' \ available_rooms :
             /\ last_msg'.op = "FindRoom"
             /\ r \notin DOMAIN rooms
             /\ r \in DOMAIN rooms'
             /\ ret'.just_created
             /\ ret'.room_id = r
      ]_vars

\* a room that FindRoom could have listed was started and is back in
\* Matchmaking after a GameEndRequest, out of the pool, with two members
C16_Witness ==
    /\ fault = "none"
    /\ last_msg.op = "GameEndRequest"
    /\ ret.tag = "Some"
    /\ LET r == players[last_msg.id].room
       IN  /\ rooms[r].state = Matchmaking
           /\ Cardinality(rooms[r].players) = 2
           /\ rooms[r].in_game_count = 1
           /\ r \notin available_rooms

\* C17: a match only starts with at least two participants: immediately
\* after a StartRoom that set a room to Playing and delivered room-start
\* events, that room has at least two members, all flagged in_game.
C17_MatchStartsWithTwoParticipants ==
    [][ ( /\ last_msg'.op = "StartRoom"
          /\ fault' = "none"
          /\ players[last_msg'.id].room # None
          /\ rooms[players[last_msg'.id].room].state = Matchmaking
          /\ players[last_msg'.id].room \in DOMAIN rooms'
          /\ rooms'[players[last_msg'.id].room].state = Playing
          /\ RoomStarts(sent') # {} )
        => LET r == players[last_msg'.id].room
           IN  /\ Cardinality(rooms'[r].players) >= 2
               /\ \A m \in rooms'[r].players :
                    m \in DOMAIN players' /\ players'[m].in_game
      ]_vars

\* the panics of a failed lookup of a room or a player
LookupFaults ==
    { "create_room: unwrap on None", "join_room: unwrap on None", "Cannot find room",
      "Cannot find player", "Invalid player", "Expected player",
      "find_available_room_for: unwrap on None", "member list: unwrap on None" }

\* C18: while every player id used is currently registered, no handler hits
\* an internal-consistency fault: every unwrap / expect lookup of a room or
\* a player finds its entry.
C18_NoLookupFault ==
    [][ (last_msg'.id = None \/ last_msg'.id \in DOMAIN players)
        => fault' \notin LookupFaults
      ]_vars

\* C19: after every processed message every id in any room's member set is
\* the id of a registered player whose room field is Some(that room); so no
\* id is in the member sets of two rooms and a disconnected player's id is
\* in none.
C19_MembersAreRegisteredAndPointBack ==
    fault = "none" =>
      \A r \in DOMAIN rooms : \A m \in rooms[r].players :
        m \in DOMAIN players /\ players[m].room = r

\* C20: a room's in_game_count is never decremented while it is 0.  The
\* decrement at 0 is the one step at which the build's treatment of integer
\* overflow shows: it panics or wraps, and overflow_checks records which.
C20_InGameCountNeverUnderflows ==
    /\ overflow_checks = "either"
    /\ fault # "attempt to subtract with overflow"

====
